---- MODULE Spec2Model ----
(***************************************************************************)
(* Model of deploy.py, the one-command deployer of a Jupyter Lab podman    *)
(* container: the configuration store (load/save/is_complete), the image   *)
(* builder, the filesystem preparer, the systemd unit installer, the       *)
(* service controller and the orchestrator main().                         *)
(*                                                                         *)
(* A run of main() is a sequence of steps, one per function main calls.    *)
(* The host (configuration file, unit file, images, service, directories,  *)
(* template destinations) persists between runs.  External commands are    *)
(* modelled by their exit status (zero / non-zero), which is all that      *)
(* run_command distinguishes.                                              *)
(***************************************************************************)
EXTENDS Integers, Sequences, FiniteSets, TLC

VARIABLES
    configFile,     \* CONFIG_FILE on disk: [exists, text]
    unitFile,       \* SERVICE_FILE on disk: [exists, unit]
    images,         \* tags known to podman
    serviceActive,  \* systemctl --user is-active jupyter-lab.service
    dirs,           \* directories that exist
    destFiles,      \* files below CONFIG_DIR coming from templates or the user
    pc,             \* position of the current run inside main()
    flags,          \* command-line options of the current run
    config,         \* main's local `config`
    is_complete,    \* main's local `is_complete`
    missing,        \* main's local `missing`
    is_running,     \* main's local `is_running`
    result,         \* return value of the last step that returns a bool
    log,            \* operations performed by the current run, in order
    exit,           \* how the current run ended
    pre,            \* the host as it was when the current run started
    runs            \* number of runs started so far

host == <<configFile, unitFile, images, serviceActive, dirs, destFiles>>
vars == <<configFile, unitFile, images, serviceActive, dirs, destFiles,
          pc, flags, config, is_complete, missing, is_running, result, log, exit, pre, runs>>

(***************************************************************************)
(* Bounds                                                                  *)
(***************************************************************************)
MaxRuns == 2

(***************************************************************************)
(* Values.  A configuration value is a TOML string, a TOML integer or      *)
(* Python's None (only ever produced by a cancelled prompt).               *)
(***************************************************************************)
StrV(s) == [t |-> "str", v |-> s]
IntV(s) == [t |-> "int", v |-> s]
None == [t |-> "none", v |-> ""]

\* Python truthiness: `not x`
Truthy(x) == \/ x.t = "str" /\ x.v # ""
             \/ x.t = "int" /\ x.v # "0"

\* str(x) as an f-string interpolates it
Format(x) == IF x.t = "none" THEN "None" ELSE x.v

EmptyDict == [k \in {} |-> k]

\* d.get(s, {}).get(k)
Get(d, s, k) == IF s \in DOMAIN d /\ k \in DOMAIN d[s] THEN d[s][k] ELSE None

\* d[s][k] raises KeyError
HasKey(d, s, k) == s \in DOMAIN d /\ k \in DOMAIN d[s]

(***************************************************************************)
(* Paths and defaults                                                      *)
(***************************************************************************)
CONFIG_DIR == "~/.config/jupyter-lab"
CACHE_DIR == "~/.local/share/jupyter-lab/.uv-cache"
IMAGE_TAG == "localhost/jupyter-lab:latest"

DEFAULTS == [ai |-> [base_url |-> StrV("https://api.z.ai/v1"), model |-> StrV("glm-4-flash")],
             paths |-> [notebooks_dir |-> StrV("~/Documents/jupyter")],
             container |-> [image_name |-> StrV("localhost/jupyter-lab:latest"),
                            port |-> IntV("8888")]]

\* insertion order of the sections and keys of a configuration
SectionOrder == <<"ai", "paths", "container">>
KeyOrder == <<"api_key", "base_url", "model", "notebooks_dir", "image_name", "port">>

(***************************************************************************)
(* TOML text: a sequence of lines <<kind, name, type, value>>.             *)
(*   <<"hdr", s, "", "">>     [s]                                          *)
(*   <<"kv", k, "str", v>>    k = "v"                                      *)
(*   <<"kv", k, "int", v>>    k = v                                        *)
(*   <<"blank", "", "", "">>  empty line                                   *)
(* <<"err", ...>> marks the place where tomli_w raises TypeError.          *)
(***************************************************************************)
RECURSIVE KeyChunks(_, _)
KeyChunks(tbl, i) ==
    IF i > Len(KeyOrder) THEN <<>>
    ELSE LET k == KeyOrder[i] IN
         IF k \notin DOMAIN tbl THEN KeyChunks(tbl, i + 1)
         ELSE IF tbl[k].t = "none" THEN <<<<"err", k, "", "">>>>
         ELSE <<<<"kv", k, tbl[k].t, tbl[k].v>>>> \o KeyChunks(tbl, i + 1)

RECURSIVE TableChunks(_, _, _)
TableChunks(d, i, yielded) ==
    IF i > Len(SectionOrder) THEN <<>>
    ELSE LET s == SectionOrder[i] IN
         IF s \notin DOMAIN d THEN TableChunks(d, i + 1, yielded)
         ELSE LET body == (IF yielded THEN <<<<"blank", "", "", "">>>> ELSE <<>>)
                          \o <<<<"hdr", s, "", "">>>> \o KeyChunks(d[s], 1)
              IN IF body # <<>> /\ body[Len(body)][1] = "err" THEN body
                 ELSE body \o TableChunks(d, i + 1, TRUE)

\* the chunks tomli_w.dump generates for d, up to and including a failure
gen_table_chunks(d) == TableChunks(d, 1, FALSE)

DumpFails(d) == LET c == gen_table_chunks(d) IN c # <<>> /\ c[Len(c)][1] = "err"

\* what reaches the file: every chunk generated before the failure, if any
DumpText_drop_container(d) ==
    LET c == gen_table_chunks([s \in DOMAIN d \ {"container"} |-> d[s]])
    IN IF DumpFails(d) THEN SubSeq(c, 1, Len(c) - 1) ELSE c

DumpText(d) == LET c == gen_table_chunks(d)
               IN IF DumpFails(d) THEN SubSeq(c, 1, Len(c) - 1) ELSE c

\* tomllib.load: tables and their keys, whatever the layout
RECURSIVE ParseFrom(_, _, _, _)
ParseFrom(text, i, cur, acc) ==
    IF i > Len(text) THEN acc
    ELSE LET ln == text[i] IN
         IF ln[1] = "hdr"
         THEN ParseFrom(text, i + 1, ln[2],
                        IF ln[2] \in DOMAIN acc THEN acc ELSE acc @@ (ln[2] :> EmptyDict))
         ELSE IF ln[1] = "kv" /\ cur \in DOMAIN acc
         THEN ParseFrom(text, i + 1, cur,
                        [acc EXCEPT ![cur] = (ln[2] :> [t |-> ln[3], v |-> ln[4]]) @@ @])
         ELSE ParseFrom(text, i + 1, cur, acc)

TomlLoad(text) == ParseFrom(text, 1, "", EmptyDict)

(***************************************************************************)
(* Configuration store                                                     *)
(***************************************************************************)
NoFile == [exists |-> FALSE, text |-> <<>>]

\* load_config(): the parsed file, or {} when there is none
load_config(file) == IF file.exists THEN TomlLoad(file.text) ELSE EmptyDict

\* save_config(config): open(..., "wb") truncates, then dump writes chunk by
\* chunk; the with-block flushes what was written when dump raises
save_config(c) == [exists |-> TRUE, text |-> DumpText(c)]

\* is_config_complete(config): (len(missing) == 0, missing)
MissingOf_no_base_url(c) ==
    (IF ~Truthy(Get(c, "ai", "api_key")) THEN <<"AI API key">> ELSE <<>>)
    \o (IF ~Truthy(Get(c, "paths", "notebooks_dir")) THEN <<"Notebooks directory">> ELSE <<>>)

MissingOf(c) ==
    (IF ~Truthy(Get(c, "ai", "api_key")) THEN <<"AI API key">> ELSE <<>>)
    \o (IF ~Truthy(Get(c, "ai", "base_url")) THEN <<"AI API base URL">> ELSE <<>>)
    \o (IF ~Truthy(Get(c, "paths", "notebooks_dir")) THEN <<"Notebooks directory">> ELSE <<>>)

is_config_complete(c) == <<Len(MissingOf(c)) = 0, MissingOf(c)>>

(***************************************************************************)
(* prompt_config                                                           *)
(***************************************************************************)
\* what the operator may answer; None is a cancelled prompt (Ctrl-C)
ApiKeyAnswers == {None, StrV(""), StrV("K2")}
BaseUrlAnswers == {None, StrV(" "), StrV("U2")}
ModelAnswers == {None, StrV("glm-4")}
NotebooksAnswers == {None, StrV(""), StrV("/n2")}

\* line 103: `if not api_key`, the key was refused
KeyRefused_only_cancel(api_key) == api_key = None

KeyRefused(api_key) == ~Truthy(api_key)

\* str.strip() on the answers above
strip(x) == IF x = StrV(" ") THEN StrV("") ELSE x

\* the dictionary prompt_config returns
prompt_result(existing_config, api_key, base_url, model, notebooks_dir) ==
    [ai |-> [api_key |-> api_key, base_url |-> strip(base_url), model |-> model],
     paths |-> [notebooks_dir |-> notebooks_dir],
     container |-> IF "container" \in DOMAIN existing_config
                   THEN existing_config["container"]
                   ELSE DEFAULTS.container]

(***************************************************************************)
(* Process runner                                                          *)
(***************************************************************************)
\* run_command(cmd, error_msg, continue_on_error), given whether the command
\* exits with status zero: its return value ...
run_command(ok, continue_on_error) == ok

\* ... and whether it raises DeploymentError instead of returning
RunCommandRaises(ok, continue_on_error) == ~ok /\ ~continue_on_error

(***************************************************************************)
(* Image builder                                                           *)
(***************************************************************************)
\* build_image(force) given the exit status of `podman build`:
\* [built, result, images]
build_image_ignores_force(force, imgs, buildOk) ==
    IF IMAGE_TAG \in imgs
    THEN [built |-> FALSE, result |-> TRUE, images |-> imgs]
    ELSE [built |-> TRUE, result |-> buildOk,
          images |-> IF buildOk THEN imgs \cup {IMAGE_TAG} ELSE imgs]

build_image(force, imgs, buildOk) ==
    IF ~force /\ IMAGE_TAG \in imgs
    THEN [built |-> FALSE, result |-> TRUE, images |-> imgs]
    ELSE [built |-> TRUE, result |-> run_command(buildOk, TRUE),
          images |-> IF buildOk THEN imgs \cup {IMAGE_TAG} ELSE imgs]

(***************************************************************************)
(* Filesystem preparer                                                     *)
(***************************************************************************)
LabCfg == "jupyter_lab_config.py"
KernelCfg == "ipython_kernel_config.py"
StartupScript == "ipython/profile_default/startup/00-load-jupyter-ai.py"
UserScript == "ipython/profile_default/startup/99-user.py"
DestPaths == {LabCfg, KernelCfg, StartupScript, UserScript}

\* files present under jupyter_config_template/ in the repository
TemplateFiles == {LabCfg, StartupScript}
\* the (config_file, description) pairs of copy_jupyter_config
SingleFiles == {LabCfg, KernelCfg}
\* files below jupyter_config_template/ipython
IpythonTree == {StartupScript}

\* create_directories: the list `dirs`; building it raises when the
\* notebooks directory is not a path.  deploy.py only ever creates the cache
\* and notebooks directories and never looks at them again, so the state
\* keeps the existence of CONFIG_DIR alone.
TrackedDirs == {CONFIG_DIR}
DirsToCreate(c) == {CONFIG_DIR, CACHE_DIR, Format(c["paths"]["notebooks_dir"])}
DirsRaises(c) == \/ ~HasKey(c, "paths", "notebooks_dir")
                 \/ c["paths"]["notebooks_dir"].t # "str"

\* the single-file loop: dest is written iff it does not exist, the
\* template exists and shutil.copy2 succeeds
CopySingle_overwrites(files, f, copyOk) ==
    IF f \in TemplateFiles /\ copyOk THEN "template" ELSE files[f]

CopySingle(files, f, copyOk) ==
    IF files[f] = "absent" /\ f \in TemplateFiles /\ copyOk THEN "template" ELSE files[f]

\* shutil.copytree(ipython_src, ipython_dest, dirs_exist_ok=True): every
\* file of the template tree is copied over whatever is at the destination
CopyTree(files, f, copyOk) ==
    IF f \in IpythonTree /\ copyOk THEN "template" ELSE files[f]

copy_jupyter_config(files, okSingle, okTree) ==
    [f \in DestPaths |->
        IF f \in SingleFiles THEN CopySingle(files, f, f \in okSingle)
        ELSE CopyTree(files, f, okTree)]

(***************************************************************************)
(* Service unit installer                                                  *)
(***************************************************************************)
NoUnit == [exists |-> FALSE,
           unit |-> [JUPYTER_NOTEBOOKS_DIR |-> "", OPENAI_API_KEY |-> "",
                     OPENAI_BASE_URL |-> "", ANTHROPIC_API_KEY |-> "",
                     ANTHROPIC_BASE_URL |-> "", mount |-> "", image |-> ""]]

\* the f-string raises KeyError when one of the interpolated keys is absent
RenderRaises(c) == \/ ~HasKey(c, "paths", "notebooks_dir")
                   \/ ~HasKey(c, "ai", "api_key")
                   \/ ~HasKey(c, "ai", "base_url")
                   \/ ~HasKey(c, "container", "image_name")

\* service_content: the interpolated parts of the unit text
service_content_fixed_image(c) ==
    [JUPYTER_NOTEBOOKS_DIR |-> Format(c["paths"]["notebooks_dir"]),
     OPENAI_API_KEY |-> Format(c["ai"]["api_key"]),
     OPENAI_BASE_URL |-> Format(c["ai"]["base_url"]),
     ANTHROPIC_API_KEY |-> Format(c["ai"]["api_key"]),
     ANTHROPIC_BASE_URL |-> Format(c["ai"]["base_url"]),
     mount |-> "${JUPYTER_NOTEBOOKS_DIR}",
     image |-> IMAGE_TAG]

service_content(c) ==
    [JUPYTER_NOTEBOOKS_DIR |-> Format(c["paths"]["notebooks_dir"]),
     OPENAI_API_KEY |-> Format(c["ai"]["api_key"]),
     OPENAI_BASE_URL |-> Format(c["ai"]["base_url"]),
     ANTHROPIC_API_KEY |-> Format(c["ai"]["api_key"]),
     ANTHROPIC_BASE_URL |-> Format(c["ai"]["base_url"]),
     mount |-> "${JUPYTER_NOTEBOOKS_DIR}",
     image |-> Format(c["container"]["image_name"])]

\* SERVICE_FILE.write_text(service_content)
install_systemd_service_keeps_old(c, old) ==
    IF old.exists THEN old ELSE [exists |-> TRUE, unit |-> service_content(c)]

install_systemd_service(c, old) == [exists |-> TRUE, unit |-> service_content(c)]

\* the host directory systemd mounts on /workspace/notebooks
MountSource(u) == IF u.mount = "${JUPYTER_NOTEBOOKS_DIR}" THEN u.JUPYTER_NOTEBOOKS_DIR ELSE u.mount

(***************************************************************************)
(* Service controller                                                      *)
(***************************************************************************)
\* check_service_status()[0]
check_service_status_never_active(active) == FALSE

check_service_status(active) == active

\* systemctl --user stop / start, given the exit status
stop_service(active, ok) == IF ok THEN FALSE ELSE active
start_service(active, ok) == IF ok THEN TRUE ELSE active

\* show_status raises KeyError when the panel of a running service
\* interpolates a key the configuration lacks
ShowStatusRaises(c, active) ==
    /\ check_service_status(active)
    /\ \/ ~HasKey(c, "container", "port")
       \/ ~HasKey(c, "paths", "notebooks_dir")

(***************************************************************************)
(* Hosts a run may start on                                                *)
(***************************************************************************)
CompleteAi == [api_key |-> StrV("K1"), base_url |-> StrV("U1"), model |-> StrV("glm-4-flash")]
Paths1 == [notebooks_dir |-> StrV("/n1")]

InitConfigs ==
    { [ai |-> CompleteAi, paths |-> Paths1, container |-> DEFAULTS.container],
      [ai |-> CompleteAi, paths |-> Paths1,
       container |-> [image_name |-> StrV("localhost/custom:1"), port |-> IntV("9999")]],
      [ai |-> CompleteAi, paths |-> Paths1],
      [ai |-> [api_key |-> StrV("K1"), base_url |-> StrV(""), model |-> StrV("glm-4-flash")],
       paths |-> Paths1, container |-> [port |-> IntV("9999")]] }

InitConfigFiles == {NoFile} \cup {[exists |-> TRUE, text |-> DumpText(c)] : c \in InitConfigs}

\* a unit left by an earlier deployment or edited by hand
StaleUnit == [exists |-> TRUE,
              unit |-> [JUPYTER_NOTEBOOKS_DIR |-> "/old", OPENAI_API_KEY |-> "K0",
                        OPENAI_BASE_URL |-> "U0", ANTHROPIC_API_KEY |-> "A0",
                        ANTHROPIC_BASE_URL |-> "B0", mount |-> "/elsewhere",
                        image |-> "localhost/old:1"]]

InitDestFiles ==
    { [f \in DestPaths |-> "absent"],
      [f \in DestPaths |-> "user"] }

Snapshot == [configFile |-> configFile, unitFile |-> unitFile, images |-> images,
             serviceActive |-> serviceActive, dirs |-> dirs, destFiles |-> destFiles]

NoFlags == [rebuild |-> FALSE, reconfigure |-> FALSE, status_only |-> FALSE, stop |-> FALSE]

Init ==
    /\ configFile \in InitConfigFiles
    /\ unitFile \in {NoUnit, StaleUnit}
    /\ images \in {{}, {IMAGE_TAG}}
    /\ serviceActive \in BOOLEAN
    /\ destFiles \in InitDestFiles
    /\ dirs = IF configFile.exists \/ \E f \in DestPaths : destFiles[f] # "absent"
              THEN {CONFIG_DIR} ELSE {}
    /\ pc = "idle"
    /\ flags = NoFlags
    /\ config = EmptyDict
    /\ is_complete = FALSE
    /\ missing = <<>>
    /\ is_running = FALSE
    /\ result = FALSE
    /\ log = <<>>
    /\ exit = "none"
    /\ pre = Snapshot
    /\ runs = 0

(***************************************************************************)
(* main                                                                    *)
(***************************************************************************)
\* line 390: --stop is handled before anything else
StopFirst_after_status(f) == f.stop /\ ~f.status_only

StopFirst(f) == f.stop

\* line 399: prompting is needed
NeedsPrompt_on_rebuild(f, complete) == f.reconfigure \/ f.rebuild \/ ~complete

NeedsPrompt(f, complete) == f.reconfigure \/ ~complete

\* line 402: what prompt_config starts from
PromptExisting(f, c) == IF f.reconfigure THEN c ELSE EmptyDict

\* lines 407 and 412: where main goes once the configuration is settled
AfterConfig_no_status(f) == "check"

AfterConfig(f) == IF f.status_only THEN "status" ELSE "check"

\* line 414: nothing to deploy
AlreadyDeployed_ignores_rebuild(f, running) == running

AlreadyDeployed(f, running) == running /\ ~f.rebuild

\* the run ends: return (exit status 0), sys.exit(1) or an uncaught exception
Finish(how) == /\ pc' = "done"
               /\ exit' = how

\* a step that calls run_command either goes on or dies of DeploymentError
Proceed(raises, next) == /\ pc' = IF raises THEN "done" ELSE next
                         /\ exit' = IF raises THEN "DeploymentError" ELSE exit

\* lines 427-428: the service is stopped first when it was running
AfterInstall_never_stops(running) == "start"

AfterInstall(running) == IF running THEN "restart" ELSE "start"

\* typer invokes main with the parsed options (lines 374-392)
StartRun ==
    /\ pc \in {"idle", "done"}
    /\ runs < MaxRuns
    /\ \E f \in [rebuild : BOOLEAN, reconfigure : BOOLEAN, status_only : BOOLEAN, stop : BOOLEAN] :
          /\ flags' = f
          /\ pc' = IF StopFirst(f) THEN "stop" ELSE "load"
    /\ runs' = runs + 1
    /\ pre' = Snapshot
    /\ config' = EmptyDict
    /\ is_complete' = FALSE
    /\ missing' = <<>>
    /\ is_running' = FALSE
    /\ result' = FALSE
    /\ log' = <<>>
    /\ exit' = "none"
    /\ UNCHANGED host

\* lines 390-392: stop_service(); return
MainStop ==
    /\ pc = "stop"
    /\ \E ok \in BOOLEAN :
          /\ serviceActive' = stop_service(serviceActive, ok)
          /\ result' = run_command(ok, TRUE)
          /\ Finish(IF RunCommandRaises(ok, TRUE) THEN "DeploymentError" ELSE "ok")
    /\ log' = Append(log, "stop")
    /\ UNCHANGED <<configFile, unitFile, images, dirs, destFiles,
                   flags, config, is_complete, missing, is_running, pre, runs>>

\* lines 395-396: load_config(); is_config_complete(config)
MainLoad ==
    /\ pc = "load"
    /\ config' = load_config(configFile)
    /\ is_complete' = is_config_complete(config')[1]
    /\ missing' = is_config_complete(config')[2]
    /\ log' = Append(log, "load")
    /\ pc' = IF NeedsPrompt(flags, is_complete') THEN "prompt" ELSE AfterConfig(flags)
    /\ UNCHANGED <<host, flags, is_running, result, exit, pre, runs>>

\* lines 399-402: config = prompt_config(config if reconfigure else {})
MainPrompt ==
    /\ pc = "prompt"
    /\ log' = Append(log, "prompt")
    /\ \E api_key \in ApiKeyAnswers, base_url \in BaseUrlAnswers,
          model \in ModelAnswers, notebooks_dir \in NotebooksAnswers :
          IF KeyRefused(api_key)
          THEN \* sys.exit(1)
               /\ Finish("sysexit1")
               /\ UNCHANGED config
          ELSE IF base_url = None
          THEN \* None.strip()
               /\ Finish("exception")
               /\ UNCHANGED config
          ELSE /\ config' = prompt_result(PromptExisting(flags, config),
                                          api_key, base_url, model, notebooks_dir)
               /\ pc' = "save"
               /\ UNCHANGED exit
    /\ UNCHANGED <<host, flags, is_complete, missing, is_running, result, pre, runs>>

\* line 403: save_config(config)
MainSave ==
    /\ pc = "save"
    /\ dirs' = dirs \cup {CONFIG_DIR}
    /\ configFile' = save_config(config)
    /\ log' = Append(log, "save")
    /\ IF DumpFails(config)
       THEN Finish("exception")
       ELSE /\ pc' = AfterConfig(flags)
            /\ UNCHANGED exit
    /\ UNCHANGED <<unitFile, images, serviceActive, destFiles,
                   flags, config, is_complete, missing, is_running, result, pre, runs>>

\* lines 407-409: show_status(config); return
MainStatus ==
    /\ pc = "status"
    /\ log' = Append(log, "show_status")
    /\ Finish(IF ShowStatusRaises(config, serviceActive) THEN "exception" ELSE "ok")
    /\ UNCHANGED <<host, flags, config, is_complete, missing, is_running, result, pre, runs>>

\* lines 412-416: is_running, _ = check_service_status(); the no-op exit
MainCheck ==
    /\ pc = "check"
    /\ is_running' = check_service_status(serviceActive)
    /\ IF AlreadyDeployed(flags, is_running')
       THEN /\ log' = log \o <<"check_status", "show_status">>
            /\ Finish(IF ShowStatusRaises(config, serviceActive) THEN "exception" ELSE "ok")
       ELSE /\ log' = Append(log, "check_status")
            /\ pc' = "build"
            /\ UNCHANGED exit
    /\ UNCHANGED <<host, flags, config, is_complete, missing, result, pre, runs>>

\* line 419: build_image(force=rebuild)
MainBuild ==
    /\ pc = "build"
    /\ \E buildOk \in BOOLEAN :
          LET b == build_image(flags.rebuild, images, buildOk) IN
          /\ images' = b.images
          /\ result' = b.result
          /\ log' = IF b.built
                    THEN log \o <<"build", IF buildOk THEN "exit0" ELSE "exit1">>
                    ELSE log
          /\ Proceed(b.built /\ RunCommandRaises(buildOk, TRUE), "dirs")
    /\ UNCHANGED <<configFile, unitFile, serviceActive, dirs, destFiles,
                   flags, config, is_complete, missing, is_running, pre, runs>>

\* line 422: create_directories(config)
MainDirs ==
    /\ pc = "dirs"
    /\ log' = Append(log, "mkdir")
    /\ IF DirsRaises(config)
       THEN /\ Finish("exception")
            /\ UNCHANGED dirs
       ELSE /\ \E made \in SUBSET DirsToCreate(config) :
                    dirs' = dirs \cup (made \cap TrackedDirs)
            /\ pc' = "copy"
            /\ UNCHANGED exit
    /\ UNCHANGED <<configFile, unitFile, images, serviceActive, destFiles,
                   flags, config, is_complete, missing, is_running, result, pre, runs>>

\* line 423: copy_jupyter_config()
MainCopy ==
    /\ pc = "copy"
    /\ log' = Append(log, "copy")
    /\ \E okSingle \in SUBSET SingleFiles, okTree \in BOOLEAN :
          /\ CONFIG_DIR \notin dirs => okSingle = {}
          /\ destFiles' = copy_jupyter_config(destFiles, okSingle, okTree)
          /\ dirs' = IF okTree THEN dirs \cup {CONFIG_DIR} ELSE dirs
    /\ pc' = "install"
    /\ UNCHANGED <<configFile, unitFile, images, serviceActive,
                   flags, config, is_complete, missing, is_running, result, exit, pre, runs>>

\* line 424: install_systemd_service(config)
MainInstall ==
    /\ pc = "install"
    /\ IF RenderRaises(config)
       THEN /\ Finish("exception")
            /\ UNCHANGED <<unitFile, result, log>>
       ELSE /\ unitFile' = install_systemd_service(config, unitFile)
            /\ log' = log \o <<"write_unit", "reload">>
            /\ \E reloadOk \in BOOLEAN :
                  Proceed(RunCommandRaises(reloadOk, TRUE), AfterInstall(is_running))
            /\ UNCHANGED result
    /\ UNCHANGED <<configFile, images, serviceActive, dirs, destFiles,
                   flags, config, is_complete, missing, is_running, pre, runs>>

\* lines 427-429: stop_service() when the service was running
MainRestart ==
    /\ pc = "restart"
    /\ \E ok \in BOOLEAN :
          /\ serviceActive' = stop_service(serviceActive, ok)
          /\ result' = run_command(ok, TRUE)
          /\ Proceed(RunCommandRaises(ok, TRUE), "start")
    /\ log' = Append(log, "stop")
    /\ UNCHANGED <<configFile, unitFile, images, dirs, destFiles,
                   flags, config, is_complete, missing, is_running, pre, runs>>

\* lines 431-437: start_service(), then the settle delay and show_status
MainStart ==
    /\ pc = "start"
    /\ \E ok \in BOOLEAN :
          /\ serviceActive' = start_service(serviceActive, ok)
          /\ result' = run_command(ok, TRUE)
          /\ IF ok
             THEN /\ log' = log \o <<"start", "sleep", "show_status">>
                  /\ Finish(IF ShowStatusRaises(config, serviceActive')
                            THEN "exception" ELSE "ok")
             ELSE /\ log' = Append(log, "start")
                  /\ Finish(IF RunCommandRaises(ok, TRUE) THEN "DeploymentError" ELSE "ok")
    /\ UNCHANGED <<configFile, unitFile, images, dirs, destFiles,
                   flags, config, is_complete, missing, is_running, pre, runs>>

Next ==
    \/ StartRun
    \/ MainStop
    \/ MainLoad
    \/ MainPrompt
    \/ MainSave
    \/ MainStatus
    \/ MainCheck
    \/ MainBuild
    \/ MainDirs
    \/ MainCopy
    \/ MainInstall
    \/ MainRestart
    \/ MainStart

Spec == Init /\ [][Next]_vars

(***************************************************************************)
(* The configuration store on its own: is_config_complete, save_config     *)
(* and load_config applied to every configuration of a bounded universe.   *)
(* `pre` holds the configuration the behaviour started from.               *)
(***************************************************************************)
Opt(k, vals) == {EmptyDict} \cup {k :> v : v \in vals}

AiTables == {a @@ b @@ c : a \in Opt("api_key", {StrV(""), StrV("K1")}),
                           b \in Opt("base_url", {StrV(""), StrV("U1")}),
                           c \in Opt("model", {StrV("glm-4-flash"), None})}
PathsTables == Opt("notebooks_dir", {StrV(""), StrV("/n1")})
ContainerTables == {a @@ b : a \in Opt("image_name", {StrV("localhost/custom:1")}),
                             b \in Opt("port", {IntV("8888")})}

ConfigUniverse == {a @@ b @@ c : a \in Opt("ai", AiTables),
                                 b \in Opt("paths", PathsTables),
                                 c \in Opt("container", ContainerTables)}

StoreInit ==
    /\ config \in ConfigUniverse
    /\ configFile \in {NoFile, [exists |-> TRUE, text |-> DumpText(DEFAULTS)]}
    /\ pre = config
    /\ pc = "store"
    /\ unitFile = NoUnit
    /\ images = {}
    /\ serviceActive = FALSE
    /\ dirs = IF configFile.exists THEN {CONFIG_DIR} ELSE {}
    /\ destFiles = [f \in DestPaths |-> "absent"]
    /\ flags = NoFlags
    /\ is_complete = FALSE
    /\ missing = <<>>
    /\ is_running = FALSE
    /\ result = FALSE
    /\ log = <<>>
    /\ exit = "none"
    /\ runs = 0

\* is_config_complete(config)
StoreCheck ==
    /\ pc = "store"
    /\ is_complete' = is_config_complete(config)[1]
    /\ missing' = is_config_complete(config)[2]
    /\ log' = Append(log, "check")
    /\ pc' = "checked"
    /\ UNCHANGED <<host, flags, config, is_running, result, exit, pre, runs>>

\* save_config(config)
StoreSave ==
    /\ pc = "checked"
    /\ dirs' = dirs \cup {CONFIG_DIR}
    /\ configFile' = save_config(config)
    /\ log' = Append(log, "save")
    /\ IF DumpFails(config)
       THEN Finish("exception")
       ELSE /\ pc' = "saved"
            /\ UNCHANGED exit
    /\ UNCHANGED <<unitFile, images, serviceActive, destFiles,
                   flags, config, is_complete, missing, is_running, result, pre, runs>>

\* config = load_config(), before or after a save
StoreLoad ==
    /\ pc \in {"store", "saved"}
    /\ config' = load_config(configFile)
    /\ log' = Append(log, "load")
    /\ pc' = "loaded"
    /\ UNCHANGED <<host, flags, is_complete, missing, is_running, result, exit, pre, runs>>

StoreNext ==
    \/ StoreCheck
    \/ StoreSave
    \/ StoreLoad

StoreSpec == StoreInit /\ [][StoreNext]_vars

(***************************************************************************)
(* Two runs of main() at the same time.  Nothing in deploy.py locks        *)
(* CONFIG_FILE or SERVICE_FILE, so the file operations of two runs         *)
(* interleave.  A file is a sequence of cells here: one cell for the fixed *)
(* bytes of a line and one for every character of the value on it.  The   *)
(* text of both files is far below the buffer size, so what a run writes   *)
(* reaches the file in one write at offset 0 when the file is closed.      *)
(* pc and config are per run; log records the file operations in order.    *)
(***************************************************************************)
Procs == {1, 2}

\* len() of the strings that occur in the configurations below
StrLen(v) ==
    CASE v = "" -> 0
      [] v \in {"K1", "K2", "U1"} -> 2
      [] v = "/n1" -> 3
      [] v = "8888" -> 4
      [] v \in {"glm-4", "/nb/2"} -> 5
      [] v = "${JUPYTER_NOTEBOOKS_DIR}" -> 24
      [] v = "localhost/jupyter-lab:latest" -> 28

Width(line) == 1 + StrLen(line[4])

RECURSIVE Bytes(_)
Bytes(lines) ==
    IF lines = <<>> THEN <<>>
    ELSE [j \in 1..Width(Head(lines)) |-> <<Head(lines), j>>] \o Bytes(Tail(lines))

\* the lines of service_content that carry an interpolated value
UnitLines(u) ==
    << <<"env", "JUPYTER_NOTEBOOKS_DIR", "str", u.JUPYTER_NOTEBOOKS_DIR>>,
       <<"env", "OPENAI_API_KEY", "str", u.OPENAI_API_KEY>>,
       <<"env", "OPENAI_BASE_URL", "str", u.OPENAI_BASE_URL>>,
       <<"env", "ANTHROPIC_API_KEY", "str", u.ANTHROPIC_API_KEY>>,
       <<"env", "ANTHROPIC_BASE_URL", "str", u.ANTHROPIC_BASE_URL>>,
       <<"arg", "-v", "str", u.mount>>,
       <<"arg", "image", "str", u.image>> >>

\* open(..., "wb") and Path.write_text: O_TRUNC empties the file
Truncate(file) == [file EXCEPT !.exists = TRUE, ![IF "text" \in DOMAIN file THEN "text" ELSE "unit"] = <<>>]

\* write(2) at offset 0 of a descriptor opened without O_APPEND: the bytes
\* replace what is there and anything beyond them stays
Overlay(old, new) == new \o SubSeq(old, Len(new) + 1, Len(old))

\* configurations two operators may have entered (prompt_config's result)
ConcConfigs ==
    { prompt_result(EmptyDict, StrV(k), StrV("U1"), StrV("glm-4"), StrV(n)) :
        k \in {"K1", "K2"},
        n \in {"/n1", "/nb/2"} }

ConfigBytes(c) == Bytes(DumpText(c))
UnitBytes(c) == Bytes(UnitLines(service_content(c)))

\* the configuration an earlier run may have left on the host
ConcPrior == prompt_result(EmptyDict, StrV("K1"), StrV("U1"), StrV("glm-4"), StrV("/n1"))

ConcInit ==
    /\ config \in {c \in [Procs -> ConcConfigs] : c[1] # c[2]}
    /\ \E had \in BOOLEAN :
          /\ configFile = [exists |-> had, text |-> IF had THEN ConfigBytes(ConcPrior) ELSE <<>>]
          /\ unitFile = [exists |-> had, unit |-> IF had THEN UnitBytes(ConcPrior) ELSE <<>>]
          /\ dirs = IF had THEN {CONFIG_DIR} ELSE {}
    /\ pc = [p \in Procs |-> "save_open"]
    /\ images = {}
    /\ serviceActive = FALSE
    /\ destFiles = [f \in DestPaths |-> "absent"]
    /\ flags = NoFlags
    /\ is_complete = FALSE
    /\ missing = <<>>
    /\ is_running = FALSE
    /\ result = FALSE
    /\ log = <<>>
    /\ exit = "none"
    /\ runs = 0
    /\ pre = Snapshot

ConcFrame == UNCHANGED <<images, serviceActive, destFiles, flags, config, is_complete,
                         missing, is_running, result, exit, pre, runs>>

\* save_config lines 74-75: mkdir, then open(CONFIG_FILE, "wb")
ConcSaveOpen(p) ==
    /\ pc[p] = "save_open"
    /\ dirs' = dirs \cup {CONFIG_DIR}
    /\ configFile' = Truncate(configFile)
    /\ pc' = [pc EXCEPT ![p] = "save_close"]
    /\ log' = Append(log, <<p, "open_config">>)
    /\ UNCHANGED unitFile
    /\ ConcFrame

\* save_config line 76 and the end of the with-block: the dump is flushed
ConcSaveClose(p) ==
    /\ pc[p] = "save_close"
    /\ configFile' = [configFile EXCEPT !.text = Overlay(@, ConfigBytes(config[p]))]
    /\ pc' = [pc EXCEPT ![p] = "unit_open"]
    /\ log' = Append(log, <<p, "write_config">>)
    /\ UNCHANGED <<unitFile, dirs>>
    /\ ConcFrame

\* install_systemd_service line 297: write_text opens SERVICE_FILE with "w"
ConcUnitOpen(p) ==
    /\ pc[p] = "unit_open"
    /\ unitFile' = Truncate(unitFile)
    /\ pc' = [pc EXCEPT ![p] = "unit_close"]
    /\ log' = Append(log, <<p, "open_unit">>)
    /\ UNCHANGED <<configFile, dirs>>
    /\ ConcFrame

\* install_systemd_service line 297: write_text writes and closes
ConcUnitClose(p) ==
    /\ pc[p] = "unit_close"
    /\ unitFile' = [unitFile EXCEPT !.unit = Overlay(@, UnitBytes(config[p]))]
    /\ pc' = [pc EXCEPT ![p] = "done"]
    /\ log' = Append(log, <<p, "write_unit">>)
    /\ UNCHANGED <<configFile, dirs>>
    /\ ConcFrame

ConcNext ==
    \E p \in Procs :
        \/ ConcSaveOpen(p)
        \/ ConcSaveClose(p)
        \/ ConcUnitOpen(p)
        \/ ConcUnitClose(p)

ConcSpec == ConcInit /\ [][ConcNext]_vars

(***************************************************************************)
(* Properties                                                              *)
(***************************************************************************)
InLog(op) == \E i \in 1..Len(log) : log[i] = op
Count(op) == Cardinality({i \in 1..Len(log) : log[i] = op})
InRun == pc # "idle"

\* operations of the full deployment path and of the service controller
DeployOps == {"build", "mkdir", "copy", "write_unit", "reload", "stop", "start"}

\* C1: a run with --stop, whatever the other options and the configuration
\* file, only issues the stop command: it never loads, prompts for or saves
\* configuration, never builds, prepares the filesystem, installs the unit
\* or starts the service, and it returns normally even when the stop failed.
C1_StopOnly ==
    (InRun /\ flags.stop) =>
        /\ pc \in {"stop", "done"}
        /\ log = IF pc = "done" THEN <<"stop">> ELSE <<>>
        /\ pc = "done" => exit = "ok"
        /\ config = EmptyDict
        /\ configFile = pre.configFile
        /\ unitFile = pre.unitFile
        /\ images = pre.images
        /\ dirs = pre.dirs
        /\ destFiles = pre.destFiles

C1_Witness ==
    /\ pc = "done"
    /\ flags.stop /\ flags.rebuild /\ flags.reconfigure
    /\ ~pre.configFile.exists
    /\ pre.serviceActive
    /\ log = <<"stop">>
    /\ ~result
    /\ exit = "ok"

C3_NoOpsWhenActive ==
    (InRun /\ ~flags.stop /\ ~flags.rebuild /\ pre.serviceActive) =>
        /\ \A op \in DeployOps : ~InLog(op)
        /\ unitFile = pre.unitFile
        /\ images = pre.images
        /\ serviceActive = pre.serviceActive
        /\ destFiles = pre.destFiles
        /\ (pc = "done" /\ exit = "ok") => log[Len(log)] = "show_status"

\* the host was left by a successful deployment: the unit on disk renders
\* the configuration on disk and the service runs
LeftByDeploy(h) ==
    /\ h.serviceActive
    /\ h.unitFile.exists
    /\ h.configFile.exists
    /\ ~RenderRaises(load_config(h.configFile))
    /\ h.unitFile.unit = service_content(load_config(h.configFile))

C3_SecondDeployChangesNothing ==
    (pc = "done" /\ flags = NoFlags /\ runs = 2 /\ LeftByDeploy(pre)) =>
        /\ Snapshot = pre
        /\ exit = "ok"
        /\ log = <<"load", "check_status", "show_status">>

\* C3 as stated, both halves
C3_Idempotent == C3_NoOpsWhenActive /\ C3_SecondDeployChangesNothing

\* C4 as stated: every run given --rebuild invokes the image build
C4_Original == (pc = "done" /\ flags.rebuild) => InLog("build")

\* the run got past loading, prompting and saving the configuration
ConfigSettled ==
    /\ exit # "sysexit1"
    /\ ~(exit = "exception" /\ log[Len(log)] \in {"prompt", "save"})

\* C4 amended: a run given --rebuild, without --stop or --status, whose
\* configuration step completes always invokes the image build, whether or
\* not the image already exists and whatever the service state is.
C4_RebuildBuilds ==
    (pc = "done" /\ flags.rebuild /\ ~flags.stop /\ ~flags.status_only /\ ConfigSettled)
        => Count("build") = 1

C4_Witness ==
    /\ pc = "done"
    /\ flags.rebuild /\ ~flags.stop /\ ~flags.status_only
    /\ IMAGE_TAG \in pre.images
    /\ pre.serviceActive
    /\ InLog("build")
    /\ exit = "ok"

\* C5: right after build_image(force): without force and with the image
\* present no build command ran and the result is success; otherwise
\* exactly one build command ran and the result is its success, a failed
\* build returning false without ending the run.
C5_BuildImage ==
    (pc = "dirs") =>
        /\ exit = "none"
        /\ IF ~flags.rebuild /\ IMAGE_TAG \in pre.images
           THEN /\ Count("build") = 0
                /\ result = TRUE
                /\ images = pre.images
           ELSE /\ Count("build") = 1
                /\ Count("exit0") + Count("exit1") = 1
                /\ result = InLog("exit0")
                /\ InLog("exit0") => IMAGE_TAG \in images
                /\ InLog("exit1") => images = pre.images

C5_Witness ==
    /\ pc = "dirs"
    /\ flags.rebuild
    /\ IMAGE_TAG \in pre.images
    /\ InLog("exit1")
    /\ ~result

\* C6: is_config_complete answers true with no missing field exactly when
\* ai.api_key, ai.base_url and paths.notebooks_dir are all present and
\* non-empty; otherwise it answers false and `missing` names each missing
\* field once and nothing else; the container section plays no part.
Present(c, s, k) == HasKey(c, s, k) /\ c[s][k] # StrV("") /\ c[s][k] # None

ExpectedMissing(c) ==
    {n \in {"AI API key", "AI API base URL", "Notebooks directory"} :
        \/ n = "AI API key" /\ ~Present(c, "ai", "api_key")
        \/ n = "AI API base URL" /\ ~Present(c, "ai", "base_url")
        \/ n = "Notebooks directory" /\ ~Present(c, "paths", "notebooks_dir")}

WithoutContainer(c) == [s \in DOMAIN c \ {"container"} |-> c[s]]

C6_Complete ==
    (pc = "checked") =>
        /\ {missing[i] : i \in 1..Len(missing)} = ExpectedMissing(pre)
        /\ Len(missing) = Cardinality(ExpectedMissing(pre))
        /\ is_complete = (ExpectedMissing(pre) = {})
        /\ is_complete = (missing = <<>>)
        /\ is_config_complete(WithoutContainer(pre)) = <<is_complete, missing>>

C6_Witness ==
    /\ pc = "checked"
    /\ ~is_complete
    /\ missing = <<"AI API key", "Notebooks directory">>
    /\ "container" \in DOMAIN pre
    /\ Present(pre, "ai", "base_url")

\* every value of c is a TOML value (no None left by a cancelled prompt)
TomlValued(c) == \A s \in DOMAIN c : \A k \in DOMAIN c[s] : c[s][k] # None

\* C7: loading what save_config wrote gives back the saved configuration,
\* field for field; load_config without a configuration file gives the
\* empty configuration and no error.
C7_RoundTrip ==
    (pc = "loaded") =>
        /\ exit = "none"
        /\ (InLog("save") /\ TomlValued(pre)) => config = pre
        /\ (~InLog("save") /\ ~configFile.exists) => config = EmptyDict

C7_Witness ==
    /\ pc = "loaded"
    /\ InLog("save")
    /\ is_complete
    /\ HasKey(pre, "container", "port")
    /\ HasKey(pre, "container", "image_name")
    /\ config = pre

\* C8: the single-file templates are only ever copied onto a destination
\* that does not exist, from a template that exists; a destination that
\* exists keeps its content through every step of every run.
C8_NeverOverwrites ==
    [][\A f \in SingleFiles :
          /\ destFiles[f] # "absent" => destFiles'[f] = destFiles[f]
          /\ destFiles'[f] # destFiles[f] =>
                /\ destFiles[f] = "absent"
                /\ f \in TemplateFiles
                /\ destFiles'[f] = "template"]_vars

C8_Witness ==
    /\ runs = 2
    /\ pc = "install"
    /\ InLog("copy")
    /\ pre.destFiles[LabCfg] = "template"
    /\ destFiles[LabCfg] = "template"
    /\ destFiles[KernelCfg] = "absent"

\* C9 as stated: after the ipython template tree is merged, every file that
\* was in the destination tree still has the content it had
C9_TreePreserved ==
    (pc = "install") =>
        \A f \in DestPaths \ SingleFiles :
            pre.destFiles[f] # "absent" => destFiles[f] = pre.destFiles[f]

\* C10: the unit install_systemd_service wrote is determined by the
\* configuration alone, whatever unit was there before: both API keys are
\* ai.api_key, both base URLs ai.base_url, the notebooks mount source is
\* paths.notebooks_dir and the run target is container.image_name.
C10_UnitFromConfig ==
    InLog("write_unit") =>
        /\ unitFile.exists
        /\ unitFile.unit.OPENAI_API_KEY = Format(Get(config, "ai", "api_key"))
        /\ unitFile.unit.ANTHROPIC_API_KEY = Format(Get(config, "ai", "api_key"))
        /\ unitFile.unit.OPENAI_BASE_URL = Format(Get(config, "ai", "base_url"))
        /\ unitFile.unit.ANTHROPIC_BASE_URL = Format(Get(config, "ai", "base_url"))
        /\ MountSource(unitFile.unit) = Format(Get(config, "paths", "notebooks_dir"))
        /\ unitFile.unit.image = Format(Get(config, "container", "image_name"))

C10_Witness ==
    /\ InLog("write_unit")
    /\ pre.unitFile = StaleUnit
    /\ unitFile.unit.image = "localhost/custom:1"
    /\ unitFile.unit.OPENAI_API_KEY = "K2"
    /\ unitFile.unit.JUPYTER_NOTEBOOKS_DIR = "/n2"

\* C11: when prompting is required and the API key is refused (empty or
\* cancelled), the run ends with a non-zero exit right after the prompt:
\* nothing is saved, no status, build, filesystem, unit, stop or start
\* operation happens and the host, the configuration file included, is as
\* it was; a run that goes on after the prompt holds a non-empty key.
C11_RefusedKeyAborts ==
    /\ exit = "sysexit1" =>
          /\ pc = "done"
          /\ log = <<"load", "prompt">>
          /\ NeedsPrompt(flags, is_complete)
          /\ Snapshot = pre
    /\ (InLog("prompt") /\ exit = "none" /\ pc # "prompt") =>
          Truthy(Get(config, "ai", "api_key"))
    /\ InLog("save") => Truthy(Get(config, "ai", "api_key"))

C11_Witness ==
    /\ exit = "sysexit1"
    /\ flags.reconfigure /\ flags.rebuild
    /\ pre.configFile.exists
    /\ is_complete
    /\ configFile = pre.configFile

\* C12 as stated: with a valid configuration file in place, whatever happens
\* to a save, the configuration file is either the complete prior content or
\* the complete new content
C12_SaveAtomic ==
    (InRun /\ pre.configFile.exists /\ is_config_complete(load_config(pre.configFile))[1]) =>
        \/ configFile = pre.configFile
        \/ /\ ~DumpFails(config)
           /\ configFile = [exists |-> TRUE, text |-> gen_table_chunks(config)]

\* position of an operation in the full deployment path
OpRank(op) ==
    CASE op = "build" -> 1
      [] op \in {"exit0", "exit1"} -> 2
      [] op = "mkdir" -> 3
      [] op = "copy" -> 4
      [] op = "write_unit" -> 5
      [] op = "reload" -> 6
      [] op = "stop" -> 7
      [] op = "start" -> 8
      [] op = "sleep" -> 9
      [] op = "show_status" -> 10
      [] OTHER -> 0

\* what the run did after the status check of line 412
DeployTail ==
    LET k == CHOOSE i \in 1..Len(log) : log[i] = "check_status"
    IN SubSeq(log, k + 1, Len(log))

\* C13: on the full deployment path the operations happen in the order
\* build, directories, templates, unit file and reload, stop, start, settle
\* delay, status; stop happens exactly when the status check found the
\* service active; start is issued only once the unit file renders the
\* current configuration; the delay and the status display follow a
\* successful start only, and a failed start ends the run normally without
\* a status display.
C13_Order ==
    (InLog("check_status") /\ ~AlreadyDeployed(flags, is_running)) =>
        /\ \A i \in 1..Len(DeployTail) : OpRank(DeployTail[i]) > 0
        /\ \A i \in 1..(Len(DeployTail) - 1) :
               OpRank(DeployTail[i]) < OpRank(DeployTail[i + 1])
        /\ (pc = "start" \/ InLog("start")) =>
              /\ InLog("mkdir") /\ InLog("copy") /\ InLog("write_unit") /\ InLog("reload")
              /\ unitFile = [exists |-> TRUE, unit |-> service_content(config)]
              /\ InLog("stop") = is_running
        /\ InLog("stop") => is_running
        /\ InLog("sleep") => (InLog("start") /\ result /\ pc = "done")
        /\ InLog("show_status") => InLog("sleep")
        /\ (pc = "done" /\ InLog("start") /\ result) => InLog("show_status")
        /\ (pc = "done" /\ InLog("start") /\ ~result) =>
              (~InLog("sleep") /\ ~InLog("show_status") /\ exit = "ok")

C13_Witness ==
    /\ pc = "done"
    /\ flags.rebuild
    /\ is_running
    /\ log = <<"load", "check_status", "build", "exit1", "mkdir", "copy",
               "write_unit", "reload", "stop", "start">>
    /\ ~result
    /\ pre.unitFile = StaleUnit
    /\ exit = "ok"

\* the run is on the full deployment path of lines 418-437
FullDeploy == InLog("check_status") /\ ~AlreadyDeployed(flags, is_running)

\* C14: on the full deployment path no failure of build, directory
\* creation, template copy, reload or stop raises DeploymentError, and the
\* finished run has issued the start command exactly once.
C14_ToleratedFailures ==
    FullDeploy =>
        /\ exit # "DeploymentError"
        /\ pc = "done" => Count("start") = 1

\* the configuration file the run found is complete
PersistedComplete == is_config_complete(load_config(pre.configFile))[1]

\* C15: when a complete configuration is persisted and --reconfigure is not
\* given, the run neither prompts nor saves and the configuration file stays
\* as it was; no run removes an existing configuration file.
C15_ConfigFrame ==
    /\ (InRun /\ PersistedComplete /\ ~flags.reconfigure) =>
          /\ configFile = pre.configFile
          /\ ~InLog("prompt")
          /\ ~InLog("save")
    /\ (InRun /\ pre.configFile.exists) => configFile.exists

C15_Witness ==
    /\ pc = "done"
    /\ PersistedComplete
    /\ flags.rebuild /\ ~flags.reconfigure /\ ~flags.stop /\ ~flags.status_only
    /\ InLog("start")
    /\ unitFile # pre.unitFile
    /\ configFile = pre.configFile

\* the run has reached the image build, the unit installation or the start
ReachedDeploySteps ==
    \/ pc \in {"build", "dirs", "copy", "install", "restart", "start"}
    \/ InLog("mkdir")

\* C16: whenever a run reaches the image build, the unit installation or the
\* service start, the configuration in use is complete, also when it comes
\* from a prompt that returned an empty base URL or notebooks directory.
C16_DeployOnlyComplete ==
    (ReachedDeploySteps /\ ~flags.stop) => is_config_complete(config)[1]

\* the persisted configuration has no container section or lacks a field of it
ContainerPartial(c) ==
    ~HasKey(c, "container", "image_name") \/ ~HasKey(c, "container", "port")

\* C17: with a complete persisted configuration whose container section or
\* one of its fields is absent, a default deploy or --status run ends
\* without error and the unit file it wrote runs the default image.
C17_ContainerDefaults ==
    (/\ pc = "done"
     /\ flags = NoFlags \/ flags = [NoFlags EXCEPT !.status_only = TRUE]
     /\ PersistedComplete
     /\ ContainerPartial(load_config(pre.configFile))) =>
        /\ exit = "ok"
        /\ InLog("write_unit") =>
               unitFile.unit.image = Format(DEFAULTS["container"]["image_name"])

\* the run was started as `deploy.py --reconfigure` on an active service
ReconfigureOnActive ==
    /\ InRun
    /\ flags = [NoFlags EXCEPT !.reconfigure = TRUE]
    /\ pre.serviceActive

\* the unit file the run found renders the configuration file it found
UnitRendersPersisted ==
    /\ pre.unitFile.exists
    /\ ~RenderRaises(load_config(pre.configFile))
    /\ pre.unitFile.unit = service_content(load_config(pre.configFile))

\* C19: --reconfigure alone on an active service saves the prompted
\* configuration and performs no build, filesystem, unit, reload, stop or
\* start operation; the unit file and the service stay as they were, so a
\* unit that rendered the previous configuration still renders it and not
\* the configuration now on disk.
C19_ReconfigureLeavesUnit ==
    ReconfigureOnActive =>
        /\ unitFile = pre.unitFile
        /\ serviceActive
        /\ images = pre.images
        /\ \A op \in DeployOps : ~InLog(op)
        /\ (pc = "done" /\ exit = "ok") =>
              /\ InLog("save")
              /\ configFile.exists
              /\ load_config(configFile) = config
        /\ (/\ pc = "done" /\ exit = "ok"
            /\ UnitRendersPersisted
            /\ ~RenderRaises(config)
            /\ service_content(config) # service_content(load_config(pre.configFile))) =>
              /\ unitFile.unit = service_content(load_config(pre.configFile))
              /\ unitFile.unit # service_content(load_config(configFile))

C19_Witness ==
    /\ ReconfigureOnActive
    /\ pc = "done" /\ exit = "ok"
    /\ UnitRendersPersisted
    /\ ~RenderRaises(config)
    /\ configFile # pre.configFile
    /\ unitFile.unit.OPENAI_API_KEY = "K1"
    /\ service_content(load_config(configFile)).OPENAI_API_KEY = "K2"

\* C20: the only image a run adds is the fixed tag, a successful build leaves
\* the fixed tag present whatever container.image_name says, and the unit
\* file runs container.image_name; the image the unit runs is the one the
\* build ensures exactly when container.image_name is the fixed tag.
C20_FixedBuildTag ==
    /\ InRun => images \subseteq (pre.images \cup {IMAGE_TAG})
    /\ InLog("exit0") => IMAGE_TAG \in images
    /\ InLog("mkdir") => (InLog("build") = (flags.rebuild \/ IMAGE_TAG \notin pre.images))
    /\ InLog("write_unit") =>
          /\ unitFile.unit.image = Format(Get(config, "container", "image_name"))
          /\ (unitFile.unit.image = IMAGE_TAG) =
                (Get(config, "container", "image_name") = StrV(IMAGE_TAG))
          /\ (unitFile.unit.image \in images \ pre.images) =>
                Get(config, "container", "image_name") = StrV(IMAGE_TAG)

C20_Witness ==
    /\ pc = "done" /\ exit = "ok"
    /\ pre.images = {}
    /\ log = <<"load", "check_status", "build", "exit0", "mkdir", "copy",
               "write_unit", "reload", "start", "sleep", "show_status">>
    /\ images = {IMAGE_TAG}
    /\ unitFile.unit.image = "localhost/custom:1"
    /\ serviceActive

\* both concurrent runs have finished
BothDone == \A p \in Procs : pc[p] = "done"

\* C18: after two concurrent runs with different configurations the
\* configuration file is exactly what one of the runs saved and the unit
\* file is exactly what one of the runs rendered.
C18_LastWriterWins ==
    BothDone =>
        /\ \E p \in Procs : configFile = [exists |-> TRUE, text |-> ConfigBytes(config[p])]
        /\ \E p \in Procs : unitFile = [exists |-> TRUE, unit |-> UnitBytes(config[p])]

====
